---- MODULE Spec2Model ----
(***************************************************************************)
(* Model of the Eulumdat NAPI bridge (eulumdat_napi.cpp) and of the engine *)
(* it calls through the C interface declared in eulumdat_ffi.h.            *)
(*                                                                         *)
(* The bridge keeps one process-wide handle, g_handle.  Every exported     *)
(* function is a callback that runs to completion on the caller's thread.  *)
(* Spec runs the callbacks one after another; SpecConc runs them from      *)
(* several callers whose steps interleave on the shared g_handle.          *)
(***************************************************************************)
EXTENDS Integers, Sequences, FiniteSets, TLC

\* nullptr: the value of g_handle when no file is loaded, and of a char* that
\* points at nothing.
NULL == 0

\* Number of addresses the engine's allocator can hand out for a handle.
NumAddr == 2

Addrs == 1..NumAddr

\* ------------------------------------------------------------------------
\* Input files.  A file content is a name standing for a text; each
\* well-formed one denotes the luminaire the parser builds from it.
\* ------------------------------------------------------------------------

NoText == "<absent>"

LdtFiles == {"LDT_A", "LDT_B"}

IesFiles == {"IES_A"}

Contents == LdtFiles \cup IesFiles \cup {"LDT_SHORT", ""}

\* The luminaire a well-formed file describes (data model, spec section 3).
Luminaire(content) ==
    CASE content = "LDT_A" ->
           [luminaire_name |-> "Spot A", identification |-> "ACME",
            luminaire_number |-> "A-1", file_name |-> "a.ldt",
            date_user |-> "2024-01-01", measurement_report_number |-> "R1",
            symmetry |-> 1, type_indicator |-> 0,
            length |-> 100, width |-> 100, height |-> 50,
            luminous_area_length |-> 80, luminous_area_width |-> 70,
            c_plane_distance |-> 0, g_plane_distance |-> 90,
            total_luminous_flux |-> 1000, downward_flux_fraction |-> 100,
            light_output_ratio |-> 85,
            c_angles |-> <<0>>, g_angles |-> <<0, 90>>,
            table |-> << <<1000, 500>> >>,
            declared_flux |-> 1000]
      [] content = "LDT_B" ->
           [luminaire_name |-> "Batten B", identification |-> NoText,
            luminaire_number |-> "B-7", file_name |-> "b.ldt",
            date_user |-> NoText, measurement_report_number |-> "R2",
            symmetry |-> 4, type_indicator |-> 1,
            length |-> 1200, width |-> 60, height |-> 40,
            luminous_area_length |-> 1100, luminous_area_width |-> 50,
            c_plane_distance |-> 45, g_plane_distance |-> 90,
            total_luminous_flux |-> 3000, downward_flux_fraction |-> 60,
            light_output_ratio |-> 70,
            c_angles |-> <<0, 45, 90>>, g_angles |-> <<0, 90, 180>>,
            table |-> << <<300, 200, 0>>, <<280, 150, 20>>, <<240, 100, 40>> >>,
            declared_flux |-> 3000]
      [] OTHER ->
           [luminaire_name |-> "Flood I", identification |-> "IESNA",
            luminaire_number |-> NoText, file_name |-> "i.ies",
            date_user |-> "2023-06-30", measurement_report_number |-> NoText,
            symmetry |-> 0, type_indicator |-> 2,
            length |-> 300, width |-> 200, height |-> 150,
            luminous_area_length |-> 250, luminous_area_width |-> 180,
            c_plane_distance |-> 90, g_plane_distance |-> 90,
            total_luminous_flux |-> 5000, downward_flux_fraction |-> 90,
            light_output_ratio |-> 95,
            c_angles |-> <<0, 90, 180, 270>>, g_angles |-> <<0, 90>>,
            table |-> << <<400, 100>>, <<600, 300>>, <<800, 500>>, <<200, -1>> >>,
            declared_flux |-> 4000]

\* ------------------------------------------------------------------------
\* Engine: parsing and the handle allocator.
\* ------------------------------------------------------------------------

\* The grammar each parser accepts.
Accepts(format, content) ==
    IF format = "ldt" THEN content \in LdtFiles ELSE content \in IesFiles

\* The parser's diagnostic for a rejected input.
Diagnostic(format, content) ==
    IF content = "" THEN "parse " \o format \o ": empty input"
    ELSE IF content = "LDT_SHORT" /\ format = "ldt"
    THEN "parse ldt: expected 5 C-plane angles, found 4"
    ELSE "parse " \o format \o ": unexpected line 1 in " \o content

FreeSlot == [live |-> FALSE, model |-> "", frees |-> 0]

\* Addresses the allocator may return for a new handle.
FreeAddrs(hp) == {a \in Addrs : ~hp[a].live}

\* eulumdat_free(handle): null-safe; releases the model behind the handle.
\* frees counts the releases of the address since it was last handed out.
eulumdat_free(hp, handle) ==
    IF handle = NULL THEN hp
    ELSE [hp EXCEPT ![handle] = [live |-> FALSE, model |-> "", frees |-> @.frees + 1]]

\* eulumdat_parse_ldt / eulumdat_parse_ies: the ParseResult values the engine
\* can return for this input, each with the allocator state it leaves:
\* a handle and no error, or an error string and no handle.
eulumdat_parse(hp, format, content) ==
    IF Accepts(format, content)
    THEN {[heap |-> [hp EXCEPT ![a] = [live |-> TRUE, model |-> content, frees |-> 0]],
           handle |-> a, error |-> NoText] : a \in FreeAddrs(hp)}
    ELSE {[heap |-> hp, handle |-> NULL, error |-> Diagnostic(format, content)]}

\* ------------------------------------------------------------------------
\* Values handed to and from the ArkTS caller.
\* ------------------------------------------------------------------------

JsUndefined == [t |-> "undefined"]

JsString(s) == [t |-> "string", v |-> s]

JsNumber(n) == [t |-> "number", v |-> n]

JsBool(b) == [t |-> "boolean", v |-> b]

\* ------------------------------------------------------------------------
\* The memory one callback touches: the strings and lists the engine returned
\* to it (str, indexed by pointer) and the engine calls it made on a handle
\* (calls).  A pointer is an index into str; NULL points at nothing.
\* ------------------------------------------------------------------------

NewFrame == [str |-> <<>>, calls |-> <<>>]

Garbage == "<freed memory>"

\* The engine is entered with a handle: valid records whether the handle
\* referred to a live model at that moment.
Call(f, fn, handle, hp) ==
    [f EXCEPT !.calls = Append(@, [fn |-> fn, handle |-> handle,
                                   valid |-> handle # NULL /\ hp[handle].live])]

\* The model the engine reads through a handle; a dangling or null handle
\* reads no model.
ModelAt(hp, handle) ==
    IF handle # NULL /\ hp[handle].live THEN hp[handle].model ELSE ""

\* The engine returns an owned resource (a char*, or a list) holding text;
\* an absent text comes back as a null pointer.
Returned(f, kind, text) ==
    IF text = NoText THEN f
    ELSE [f EXCEPT !.str = Append(@, [kind |-> kind, text |-> text, live |-> TRUE,
                                      frees |-> 0, by |-> "", reads |-> 0,
                                      readsAtFree |-> 0])]

\* The pointer Returned(f, kind, text) hands back.
PtrOf(f, text) == IF text = NoText THEN NULL ELSE Len(f.str) + 1

\* What a read through the pointer sees.
Deref(f, ptr) == IF f.str[ptr].live THEN f.str[ptr].text ELSE Garbage

\* The frame after the contents behind ptr were copied out.
Copied(f, ptr) ==
    IF ptr = NULL \/ ~f.str[ptr].live THEN f
    ELSE [f EXCEPT !.str[ptr].reads = @ + 1]

\* Release of a resource with the release function fn (null-safe).
Release(f, ptr, fn) ==
    IF ptr = NULL THEN f
    ELSE [f EXCEPT !.str[ptr] = [@ EXCEPT !.live = FALSE, !.frees = @ + 1, !.by = fn,
                                          !.readsAtFree = f.str[ptr].reads]]

\* eulumdat_string_free(s)
eulumdat_string_free(f, ptr) == Release(f, ptr, "eulumdat_string_free")

\* CreateStringValue(env, str): undefined for a null pointer, else a copy.
CreateStringValue(f, ptr) ==
    IF ptr = NULL THEN JsUndefined ELSE JsString(Deref(f, ptr))

\* GetStringArg(env, arg): the UTF-8 text of a string argument; for any other
\* value napi_get_value_string_utf8 fails, len stays 0 and the text is empty.
GetStringArg(arg) == IF arg.t = "string" THEN arg.v ELSE ""

\* ------------------------------------------------------------------------
\* State
\* ------------------------------------------------------------------------

VARIABLES
    g_handle,   \* static EulumdatHandle* g_handle
    heap,       \* the engine's allocator: address -> [live, model, frees]
    lastOp,     \* the most recent completed callback and what it gave the caller
    streak,     \* the parse callbacks the parser rejected in the unbroken run of
                \* rejections that ended right before lastOp
    lastParse,  \* how the most recent parse callback that received a content
                \* argument ended: "none" before the first one, "ok", "rejected"
    pc,         \* SpecConc: where each caller stands inside its callback
    loc,        \* SpecConc: each caller's local variables
    probe       \* SpecSampler: the model under test and the last sample taken

vars == <<g_handle, heap, lastOp, streak, lastParse, pc, loc, probe>>

\* Number of callers (threads with their own ArkTS runtime) that share the
\* module's g_handle in SpecConc.
NumCallers == 2

Callers == 1..NumCallers

NoLocal == [op |-> "", handle |-> NULL, model |-> "", content |-> "",
            result |-> [handle |-> NULL, error |-> NoText]]

NoOp == [op |-> "none", argv |-> <<>>, pre |-> NULL, outcome |-> "none",
         value |-> JsUndefined, frame |-> NewFrame]

ParseOps == {"parseLdt", "parseIes"}

PerModelOps == {"getInfo", "polarSvg", "cartesianSvg", "butterflySvg", "heatmapSvg",
                "exportLdt", "exportIes", "validate", "sampleIntensity"}

FormatOf(op) == IF op = "parseLdt" THEN "ldt" ELSE "ies"

\* No model under test: the state of probe outside SpecSampler.
NoProbe == [m |-> [symmetry |-> 0, c_angles |-> <<>>, g_angles |-> <<>>, table |-> <<>>],
            argv |-> <<>>, value |-> JsUndefined]

\* A parse callback that reached the parser and was rejected by it.
Rejected(o) == o.op \in ParseOps /\ o.outcome = "throw" /\ Len(o.argv) >= 1

Init ==
    /\ g_handle = NULL
    /\ heap = [a \in Addrs |-> FreeSlot]
    /\ lastOp = NoOp
    /\ streak = {}
    /\ lastParse = "none"
    /\ pc = [t \in Callers |-> "idle"]
    /\ loc = [t \in Callers |-> NoLocal]
    /\ probe = NoProbe

\* The callback op, entered with arguments argv, completes: it returns value,
\* or leaves an exception with message value pending (napi_throw_error and
\* return nullptr).
Finish(op, argv, outcome, value, f) ==
    /\ lastOp' = [op |-> op, argv |-> argv, pre |-> g_handle, outcome |-> outcome,
                  value |-> value, frame |-> f]
    /\ streak' = IF Rejected(lastOp) THEN streak \cup {lastOp.op} ELSE {}
    /\ lastParse' = IF op \in ParseOps /\ Len(argv) >= 1
                    THEN (IF outcome = "return" THEN "ok" ELSE "rejected")
                    ELSE lastParse
    /\ UNCHANGED <<pc, loc, probe>>

\* Arguments a caller may pass as file content.
ContentArgs == {<<>>} \cup {<<JsString(c)>> : c \in Contents} \cup {<<JsNumber(7)>>}

\* parseLdt with the store of nullptr after the free left out (line 163).
ParseLdt_KeepsHandle(argv) ==
    IF Len(argv) < 1
    THEN /\ Finish("parseLdt", argv, "throw", JsString("Missing content argument"), NewFrame)
         /\ UNCHANGED <<g_handle, heap>>
    ELSE LET content == GetStringArg(argv[1])
             held == g_handle # NULL
             f0 == IF held THEN Call(NewFrame, "eulumdat_free", g_handle, heap) ELSE NewFrame
             hp0 == IF held THEN eulumdat_free(heap, g_handle) ELSE heap
         IN \E result \in eulumdat_parse(hp0, "ldt", content) :
              LET f1 == Returned(f0, "string", result.error)
                  error == PtrOf(f0, result.error)
              IN IF error # NULL
                 THEN /\ Finish("parseLdt", argv, "throw", JsString(Deref(f1, error)),
                                eulumdat_string_free(Copied(f1, error), error))
                      /\ g_handle' = g_handle
                      /\ heap' = result.heap
                 ELSE /\ Finish("parseLdt", argv, "return", JsBool(TRUE), f1)
                      /\ g_handle' = result.handle
                      /\ heap' = result.heap

\* parseLdt with the release of the previous handle moved after the store of
\* the new one.
ParseLdt_FreesAfterStore(argv) ==
    IF Len(argv) < 1
    THEN /\ Finish("parseLdt", argv, "throw", JsString("Missing content argument"), NewFrame)
         /\ UNCHANGED <<g_handle, heap>>
    ELSE LET content == GetStringArg(argv[1])
         IN \E result \in eulumdat_parse(heap, "ldt", content) :
              LET f1 == Returned(NewFrame, "string", result.error)
                  error == PtrOf(NewFrame, result.error)
              IN IF error # NULL
                 THEN /\ Finish("parseLdt", argv, "throw", JsString(Deref(f1, error)),
                                eulumdat_string_free(Copied(f1, error), error))
                      /\ g_handle' = g_handle
                      /\ heap' = result.heap
                 ELSE /\ Finish("parseLdt", argv, "return", JsBool(TRUE),
                                Call(f1, "eulumdat_free", result.handle, result.heap))
                      /\ g_handle' = NULL
                      /\ heap' = eulumdat_free(result.heap, result.handle)

\* parseLdt with the release of the previous handle moved before the check
\* of argc.
ParseLdt_FreesFirst(argv) ==
    LET held == g_handle # NULL
        f0 == IF held THEN Call(NewFrame, "eulumdat_free", g_handle, heap) ELSE NewFrame
        hp0 == IF held THEN eulumdat_free(heap, g_handle) ELSE heap
        g0 == IF held THEN NULL ELSE g_handle
    IN IF Len(argv) < 1
       THEN /\ Finish("parseLdt", argv, "throw", JsString("Missing content argument"), f0)
            /\ g_handle' = g0
            /\ heap' = hp0
       ELSE LET content == GetStringArg(argv[1])
            IN \E result \in eulumdat_parse(hp0, "ldt", content) :
                 LET f1 == Returned(f0, "string", result.error)
                     error == PtrOf(f0, result.error)
                 IN IF error # NULL
                    THEN /\ Finish("parseLdt", argv, "throw", JsString(Deref(f1, error)),
                                   eulumdat_string_free(Copied(f1, error), error))
                         /\ g_handle' = g0
                         /\ heap' = result.heap
                    ELSE /\ Finish("parseLdt", argv, "return", JsBool(TRUE), f1)
                         /\ g_handle' = result.handle
                         /\ heap' = result.heap

\* parseLdt that parses first and releases the previous handle only once the
\* new input is accepted: a rejected input leaves the previous model loaded.
ParseLdt_SwapsOnSuccess(argv) ==
    IF Len(argv) < 1
    THEN /\ Finish("parseLdt", argv, "throw", JsString("Missing content argument"), NewFrame)
         /\ UNCHANGED <<g_handle, heap>>
    ELSE LET content == GetStringArg(argv[1])
             held == g_handle # NULL
         IN \E result \in eulumdat_parse(heap, "ldt", content) :
              LET f1 == Returned(NewFrame, "string", result.error)
                  error == PtrOf(NewFrame, result.error)
              IN IF error # NULL
                 THEN /\ Finish("parseLdt", argv, "throw", JsString(Deref(f1, error)),
                                eulumdat_string_free(Copied(f1, error), error))
                      /\ g_handle' = g_handle
                      /\ heap' = result.heap
                 ELSE /\ Finish("parseLdt", argv, "return", JsBool(TRUE),
                                IF held THEN Call(f1, "eulumdat_free", g_handle, result.heap)
                                ELSE f1)
                      /\ g_handle' = result.handle
                      /\ heap' = IF held THEN eulumdat_free(result.heap, g_handle)
                                 ELSE result.heap

\* ------------------------------------------------------------------------
\* parseLdt(content: string): boolean
\* ------------------------------------------------------------------------
ParseLdt(argv) ==
    IF Len(argv) < 1
    THEN /\ Finish("parseLdt", argv, "throw", JsString("Missing content argument"), NewFrame)
         /\ UNCHANGED <<g_handle, heap>>
    ELSE LET content == GetStringArg(argv[1])
             held == g_handle # NULL
             f0 == IF held THEN Call(NewFrame, "eulumdat_free", g_handle, heap) ELSE NewFrame
             hp0 == IF held THEN eulumdat_free(heap, g_handle) ELSE heap
             g0 == IF held THEN NULL ELSE g_handle
         IN \E result \in eulumdat_parse(hp0, "ldt", content) :
              LET f1 == Returned(f0, "string", result.error)
                  error == PtrOf(f0, result.error)
              IN IF error # NULL
                 THEN /\ Finish("parseLdt", argv, "throw", JsString(Deref(f1, error)),
                                eulumdat_string_free(Copied(f1, error), error))
                      /\ g_handle' = g0
                      /\ heap' = result.heap
                 ELSE /\ Finish("parseLdt", argv, "return", JsBool(TRUE), f1)
                      /\ g_handle' = result.handle
                      /\ heap' = result.heap

\* parseIes with the store of nullptr after the free left out (line 200).
ParseIes_KeepsHandle(argv) ==
    IF Len(argv) < 1
    THEN /\ Finish("parseIes", argv, "throw", JsString("Missing content argument"), NewFrame)
         /\ UNCHANGED <<g_handle, heap>>
    ELSE LET content == GetStringArg(argv[1])
             held == g_handle # NULL
             f0 == IF held THEN Call(NewFrame, "eulumdat_free", g_handle, heap) ELSE NewFrame
             hp0 == IF held THEN eulumdat_free(heap, g_handle) ELSE heap
         IN \E result \in eulumdat_parse(hp0, "ies", content) :
              LET f1 == Returned(f0, "string", result.error)
                  error == PtrOf(f0, result.error)
              IN IF error # NULL
                 THEN /\ Finish("parseIes", argv, "throw", JsString(Deref(f1, error)),
                                eulumdat_string_free(Copied(f1, error), error))
                      /\ g_handle' = g_handle
                      /\ heap' = result.heap
                 ELSE /\ Finish("parseIes", argv, "return", JsBool(TRUE), f1)
                      /\ g_handle' = result.handle
                      /\ heap' = result.heap

\* parseIes with the error string freed before it is thrown (lines 206 and
\* 207 swapped).
ParseIes_FreesErrorFirst(argv) ==
    IF Len(argv) < 1
    THEN /\ Finish("parseIes", argv, "throw", JsString("Missing content argument"), NewFrame)
         /\ UNCHANGED <<g_handle, heap>>
    ELSE LET content == GetStringArg(argv[1])
             held == g_handle # NULL
             f0 == IF held THEN Call(NewFrame, "eulumdat_free", g_handle, heap) ELSE NewFrame
             hp0 == IF held THEN eulumdat_free(heap, g_handle) ELSE heap
             g0 == IF held THEN NULL ELSE g_handle
         IN \E result \in eulumdat_parse(hp0, "ies", content) :
              LET f1 == Returned(f0, "string", result.error)
                  error == PtrOf(f0, result.error)
                  f2 == eulumdat_string_free(f1, error)
              IN IF error # NULL
                 THEN /\ Finish("parseIes", argv, "throw", JsString(Deref(f2, error)),
                                Copied(f2, error))
                      /\ g_handle' = g0
                      /\ heap' = result.heap
                 ELSE /\ Finish("parseIes", argv, "return", JsBool(TRUE), f1)
                      /\ g_handle' = result.handle
                      /\ heap' = result.heap

\* parseIes without the release of the previous handle (lines 198-201 left
\* out): the new handle overwrites the old one.
ParseIes_NoFree(argv) ==
    IF Len(argv) < 1
    THEN /\ Finish("parseIes", argv, "throw", JsString("Missing content argument"), NewFrame)
         /\ UNCHANGED <<g_handle, heap>>
    ELSE LET content == GetStringArg(argv[1])
         IN \E result \in eulumdat_parse(heap, "ies", content) :
              LET f1 == Returned(NewFrame, "string", result.error)
                  error == PtrOf(NewFrame, result.error)
              IN IF error # NULL
                 THEN /\ Finish("parseIes", argv, "throw", JsString(Deref(f1, error)),
                                eulumdat_string_free(Copied(f1, error), error))
                      /\ g_handle' = g_handle
                      /\ heap' = result.heap
                 ELSE /\ Finish("parseIes", argv, "return", JsBool(TRUE), f1)
                      /\ g_handle' = result.handle
                      /\ heap' = result.heap

\* ------------------------------------------------------------------------
\* parseIes(content: string): boolean
\* ------------------------------------------------------------------------
ParseIes(argv) ==
    IF Len(argv) < 1
    THEN /\ Finish("parseIes", argv, "throw", JsString("Missing content argument"), NewFrame)
         /\ UNCHANGED <<g_handle, heap>>
    ELSE LET content == GetStringArg(argv[1])
             held == g_handle # NULL
             f0 == IF held THEN Call(NewFrame, "eulumdat_free", g_handle, heap) ELSE NewFrame
             hp0 == IF held THEN eulumdat_free(heap, g_handle) ELSE heap
             g0 == IF held THEN NULL ELSE g_handle
         IN \E result \in eulumdat_parse(hp0, "ies", content) :
              LET f1 == Returned(f0, "string", result.error)
                  error == PtrOf(f0, result.error)
              IN IF error # NULL
                 THEN /\ Finish("parseIes", argv, "throw", JsString(Deref(f1, error)),
                                eulumdat_string_free(Copied(f1, error), error))
                      /\ g_handle' = g0
                      /\ heap' = result.heap
                 ELSE /\ Finish("parseIes", argv, "return", JsBool(TRUE), f1)
                      /\ g_handle' = result.handle
                      /\ heap' = result.heap

\* ------------------------------------------------------------------------
\* isLoaded(): boolean
\* ------------------------------------------------------------------------
IsLoaded ==
    /\ Finish("isLoaded", <<>>, "return", JsBool(g_handle # NULL), NewFrame)
    /\ UNCHANGED <<g_handle, heap>>

\* ------------------------------------------------------------------------
\* Engine: functions of a loaded model.  A handle that refers to no live
\* model gives the engine nothing to read; what it returns then is Garbage.
\* ------------------------------------------------------------------------

Dims(width, height) == " width=" \o ToString(width) \o " height=" \o ToString(height)

\* eulumdat_polar_svg(handle, width, height, theme)
eulumdat_polar_svg(model, width, height, theme) ==
    IF model = "" THEN Garbage
    ELSE "<svg polar " \o model \o Dims(width, height) \o " theme=" \o ToString(theme) \o ">"

\* eulumdat_cartesian_svg(handle, width, height, max_curves, theme)
eulumdat_cartesian_svg(model, width, height, max_curves, theme) ==
    IF model = "" THEN Garbage
    ELSE "<svg cartesian " \o model \o Dims(width, height)
         \o " curves=" \o ToString(max_curves) \o " theme=" \o ToString(theme) \o ">"

\* eulumdat_butterfly_svg(handle, width, height, tilt_degrees, theme)
eulumdat_butterfly_svg(model, width, height, tilt_degrees, theme) ==
    IF model = "" THEN Garbage
    ELSE "<svg butterfly " \o model \o Dims(width, height)
         \o " tilt=" \o ToString(tilt_degrees) \o " theme=" \o ToString(theme) \o ">"

\* eulumdat_heatmap_svg(handle, width, height, theme)
eulumdat_heatmap_svg(model, width, height, theme) ==
    IF model = "" THEN Garbage
    ELSE "<svg heatmap " \o model \o Dims(width, height) \o " theme=" \o ToString(theme) \o ">"

\* eulumdat_export_ldt(handle)
eulumdat_export_ldt(model) == IF model = "" THEN Garbage ELSE "LDT text of " \o model

\* eulumdat_export_ies(handle)
eulumdat_export_ies(model) == IF model = "" THEN Garbage ELSE "IESNA text of " \o model

\* Numeric arguments.  napi_get_value_double / _int32 / _uint32 store the
\* number when the argument is one and otherwise leave the variable as it
\* was (the status they return is not looked at).
napi_get_value_double(argv, i, default) ==
    IF Len(argv) >= i /\ argv[i].t = "number" THEN argv[i].v ELSE default

\* A number k * 2^32 + lo with k # 0, lo in the int32 range.
JsBig(k, lo) == [t |-> "bignumber", hi |-> k, lo |-> lo]

\* napi_get_value_int32: a number outside the int32 range is truncated to its
\* bottom 32 bits.
napi_get_value_int32(argv, i, default) ==
    IF Len(argv) < i THEN default
    ELSE IF argv[i].t = "number" THEN argv[i].v
    ELSE IF argv[i].t = "bignumber" THEN argv[i].lo
    ELSE default

\* napi_get_value_uint32, on the non-negative numbers the model passes.
napi_get_value_uint32(argv, i, default) ==
    IF Len(argv) >= i /\ argv[i].t = "number" THEN argv[i].v ELSE default

\* The result of a callback that returns one engine string:
\* char* s = engine(...); result = CreateStringValue(env, s); eulumdat_string_free(s).
StringResult(op, argv, fn, text) ==
    LET f0 == Call(NewFrame, fn, g_handle, heap)
        f1 == Returned(f0, "string", text)
        s == PtrOf(f0, text)
        result == CreateStringValue(f1, s)
        f2 == eulumdat_string_free(Copied(f1, s), s)
    IN Finish(op, argv, "return", result, f2)

NoFileLoaded(op, argv) ==
    Finish(op, argv, "throw", JsString("No file loaded"), NewFrame)

SizeArgs == {<<>>, <<JsNumber(200)>>, <<JsNumber(200), JsNumber(100), JsNumber(1)>>}

SizeExtraArgs == SizeArgs \cup {<<JsNumber(300), JsNumber(150), JsNumber(4), JsNumber(1)>>}

\* ------------------------------------------------------------------------
\* polarSvg(width, height, theme): string
\* ------------------------------------------------------------------------
PolarSvg(argv) ==
    /\ IF g_handle = NULL
       THEN NoFileLoaded("polarSvg", argv)
       ELSE LET width == napi_get_value_double(argv, 1, 400)
                height == napi_get_value_double(argv, 2, 400)
                theme == napi_get_value_int32(argv, 3, 0)
            IN StringResult("polarSvg", argv, "eulumdat_polar_svg",
                   eulumdat_polar_svg(ModelAt(heap, g_handle), width, height, theme))
    /\ UNCHANGED <<g_handle, heap>>

\* ------------------------------------------------------------------------
\* cartesianSvg(width, height, maxCurves, theme): string
\* ------------------------------------------------------------------------
CartesianSvg(argv) ==
    /\ IF g_handle = NULL
       THEN NoFileLoaded("cartesianSvg", argv)
       ELSE LET width == napi_get_value_double(argv, 1, 500)
                height == napi_get_value_double(argv, 2, 300)
                maxCurves == napi_get_value_uint32(argv, 3, 8)
                theme == napi_get_value_int32(argv, 4, 0)
            IN StringResult("cartesianSvg", argv, "eulumdat_cartesian_svg",
                   eulumdat_cartesian_svg(ModelAt(heap, g_handle), width, height,
                                          maxCurves, theme))
    /\ UNCHANGED <<g_handle, heap>>

\* ------------------------------------------------------------------------
\* butterflySvg(width, height, tiltDegrees, theme): string
\* ------------------------------------------------------------------------
ButterflySvg(argv) ==
    /\ IF g_handle = NULL
       THEN NoFileLoaded("butterflySvg", argv)
       ELSE LET width == napi_get_value_double(argv, 1, 400)
                height == napi_get_value_double(argv, 2, 400)
                tiltDegrees == napi_get_value_double(argv, 3, 60)
                theme == napi_get_value_int32(argv, 4, 0)
            IN StringResult("butterflySvg", argv, "eulumdat_butterfly_svg",
                   eulumdat_butterfly_svg(ModelAt(heap, g_handle), width, height,
                                          tiltDegrees, theme))
    /\ UNCHANGED <<g_handle, heap>>

\* ------------------------------------------------------------------------
\* heatmapSvg(width, height, theme): string
\* ------------------------------------------------------------------------
HeatmapSvg(argv) ==
    /\ IF g_handle = NULL
       THEN NoFileLoaded("heatmapSvg", argv)
       ELSE LET width == napi_get_value_double(argv, 1, 400)
                height == napi_get_value_double(argv, 2, 300)
                theme == napi_get_value_int32(argv, 3, 0)
            IN StringResult("heatmapSvg", argv, "eulumdat_heatmap_svg",
                   eulumdat_heatmap_svg(ModelAt(heap, g_handle), width, height, theme))
    /\ UNCHANGED <<g_handle, heap>>

\* ------------------------------------------------------------------------
\* exportLdt(): string
\* ------------------------------------------------------------------------
ExportLdt ==
    /\ IF g_handle = NULL
       THEN NoFileLoaded("exportLdt", <<>>)
       ELSE StringResult("exportLdt", <<>>, "eulumdat_export_ldt",
                         eulumdat_export_ldt(ModelAt(heap, g_handle)))
    /\ UNCHANGED <<g_handle, heap>>

\* ------------------------------------------------------------------------
\* exportIes(): string
\* ------------------------------------------------------------------------
ExportIes ==
    /\ IF g_handle = NULL
       THEN NoFileLoaded("exportIes", <<>>)
       ELSE StringResult("exportIes", <<>>, "eulumdat_export_ies",
                         eulumdat_export_ies(ModelAt(heap, g_handle)))
    /\ UNCHANGED <<g_handle, heap>>

\* ------------------------------------------------------------------------
\* Engine: eulumdat_get_info.  The counts and the maximum are derived from
\* the stored grid and table.
\* ------------------------------------------------------------------------

SeqMax(q) == CHOOSE m \in {q[i] : i \in 1..Len(q)} : \A i \in 1..Len(q) : q[i] <= m

TableMax(table) == SeqMax([i \in 1..Len(table) |-> SeqMax(table[i])])

InfoTexts == <<"luminaire_name", "identification", "luminaire_number", "file_name",
               "date_user", "measurement_report_number">>

\* eulumdat_get_info(handle): the LuminaireInfo struct, its six char* fields
\* still as texts.
eulumdat_get_info(model) ==
    IF model = ""
    THEN [luminaire_name |-> Garbage, identification |-> Garbage,
          luminaire_number |-> Garbage, file_name |-> Garbage, date_user |-> Garbage,
          measurement_report_number |-> Garbage, symmetry |-> 0, type_indicator |-> 0,
          length |-> 0, width |-> 0, height |-> 0, luminous_area_length |-> 0,
          luminous_area_width |-> 0, num_c_planes |-> 0, num_g_planes |-> 0,
          c_plane_distance |-> 0, g_plane_distance |-> 0, max_intensity |-> 0,
          total_luminous_flux |-> 0, downward_flux_fraction |-> 0,
          light_output_ratio |-> 0]
    ELSE LET m == Luminaire(model)
         IN [luminaire_name |-> m.luminaire_name, identification |-> m.identification,
             luminaire_number |-> m.luminaire_number, file_name |-> m.file_name,
             date_user |-> m.date_user,
             measurement_report_number |-> m.measurement_report_number,
             symmetry |-> m.symmetry, type_indicator |-> m.type_indicator,
             length |-> m.length, width |-> m.width, height |-> m.height,
             luminous_area_length |-> m.luminous_area_length,
             luminous_area_width |-> m.luminous_area_width,
             num_c_planes |-> Len(m.c_angles), num_g_planes |-> Len(m.g_angles),
             c_plane_distance |-> m.c_plane_distance,
             g_plane_distance |-> m.g_plane_distance,
             max_intensity |-> TableMax(m.table),
             total_luminous_flux |-> m.total_luminous_flux,
             downward_flux_fraction |-> m.downward_flux_fraction,
             light_output_ratio |-> m.light_output_ratio]

\* ------------------------------------------------------------------------
\* getInfo(): LuminaireInfo
\* ------------------------------------------------------------------------
GetInfo ==
    /\ IF g_handle = NULL
       THEN NoFileLoaded("getInfo", <<>>)
       ELSE LET cInfo == eulumdat_get_info(ModelAt(heap, g_handle))
                f0 == Call(NewFrame, "eulumdat_get_info", g_handle, heap)
                \* the six strings the struct carries
                f1 == Returned(f0, "string", cInfo.luminaire_name)
                luminaire_name == PtrOf(f0, cInfo.luminaire_name)
                f2 == Returned(f1, "string", cInfo.identification)
                identification == PtrOf(f1, cInfo.identification)
                f3 == Returned(f2, "string", cInfo.luminaire_number)
                luminaire_number == PtrOf(f2, cInfo.luminaire_number)
                f4 == Returned(f3, "string", cInfo.file_name)
                file_name == PtrOf(f3, cInfo.file_name)
                f5 == Returned(f4, "string", cInfo.date_user)
                date_user == PtrOf(f4, cInfo.date_user)
                f6 == Returned(f5, "string", cInfo.measurement_report_number)
                measurement_report_number == PtrOf(f5, cInfo.measurement_report_number)
                \* napi_set_named_property, in the order of the code
                result ==
                    [luminaireName |-> CreateStringValue(f6, luminaire_name),
                     identification |-> CreateStringValue(f6, identification),
                     luminaireNumber |-> CreateStringValue(f6, luminaire_number),
                     fileName |-> CreateStringValue(f6, file_name),
                     dateUser |-> CreateStringValue(f6, date_user),
                     measurementReportNumber |->
                         CreateStringValue(f6, measurement_report_number),
                     symmetry |-> JsNumber(cInfo.symmetry),
                     typeIndicator |-> JsNumber(cInfo.type_indicator),
                     length |-> JsNumber(cInfo.length),
                     width |-> JsNumber(cInfo.width),
                     height |-> JsNumber(cInfo.height),
                     maxIntensity |-> JsNumber(cInfo.max_intensity),
                     totalLuminousFlux |-> JsNumber(cInfo.total_luminous_flux),
                     downwardFluxFraction |-> JsNumber(cInfo.downward_flux_fraction),
                     lightOutputRatio |-> JsNumber(cInfo.light_output_ratio),
                     numCPlanes |-> JsNumber(cInfo.num_c_planes),
                     numGPlanes |-> JsNumber(cInfo.num_g_planes)]
                c1 == Copied(f6, luminaire_name)
                c2 == Copied(c1, identification)
                c3 == Copied(c2, luminaire_number)
                c4 == Copied(c3, file_name)
                c5 == Copied(c4, date_user)
                c6 == Copied(c5, measurement_report_number)
                \* Free C strings
                r1 == eulumdat_string_free(c6, luminaire_name)
                r2 == eulumdat_string_free(r1, identification)
                r3 == eulumdat_string_free(r2, luminaire_number)
                r4 == eulumdat_string_free(r3, file_name)
                r5 == eulumdat_string_free(r4, date_user)
                r6 == eulumdat_string_free(r5, measurement_report_number)
            IN Finish("getInfo", <<>>, "return", [t |-> "object", v |-> result], r6)
    /\ UNCHANGED <<g_handle, heap>>

\* ------------------------------------------------------------------------
\* Engine: eulumdat_validate.  The checks in definition order, each with its
\* severity (0 = Info, 1 = Warning, 2 = Error).
\* ------------------------------------------------------------------------

Checks ==
    <<[code |-> "ANGLES_ORDER", severity |-> 2, message |-> "angles are not ascending"],
      [code |-> "INTENSITY_NEGATIVE", severity |-> 2, message |-> "negative intensity"],
      [code |-> "PLANE_COUNT", severity |-> 2, message |-> "plane count mismatch"],
      [code |-> "TYPE_SYMMETRY", severity |-> 1,
       message |-> "linear luminaire with symmetry about both planes"],
      [code |-> "FLUX_MISMATCH", severity |-> 1,
       message |-> "computed flux deviates from declared flux"],
      [code |-> "IDENT_MISSING", severity |-> 0, message |-> "identification field missing"]>>

Ascending(q) == \A i \in 1..Len(q) - 1 : q[i] <= q[i + 1]

\* Whether a check finds fault with a luminaire.
Fires(code, m) ==
    CASE code = "ANGLES_ORDER" -> ~Ascending(m.c_angles) \/ ~Ascending(m.g_angles)
      [] code = "INTENSITY_NEGATIVE" ->
            \E i \in 1..Len(m.table) : \E j \in 1..Len(m.table[i]) : m.table[i][j] < 0
      [] code = "PLANE_COUNT" ->
            \/ Len(m.table) # Len(m.c_angles)
            \/ \E i \in 1..Len(m.table) : Len(m.table[i]) # Len(m.g_angles)
      [] code = "TYPE_SYMMETRY" -> m.type_indicator = 1 /\ m.symmetry = 4
      [] code = "FLUX_MISMATCH" -> m.declared_flux # m.total_luminous_flux
      [] OTHER -> \E k \in 1..Len(InfoTexts) : m[InfoTexts[k]] = NoText

\* The warnings of one severity, in check-definition order.
OfSeverity(m, sev) ==
    SelectSeq(Checks, LAMBDA c : c.severity = sev /\ Fires(c.code, m))

\* eulumdat_validate(handle): Errors, then Warnings, then Info.
eulumdat_validate(model) ==
    IF model = "" THEN <<>>
    ELSE LET m == Luminaire(model)
         IN OfSeverity(m, 2) \o OfSeverity(m, 1) \o OfSeverity(m, 0)

\* The engine returns a ValidationWarningList {data, len} holding warnings.
ReturnedList(f, warnings) ==
    [f EXCEPT !.str = Append(@, [kind |-> "validation_list", text |-> warnings,
                                 live |-> TRUE, frees |-> 0, by |-> "", reads |-> 0,
                                 readsAtFree |-> 0])]

\* cList.data[i], read through the list's data pointer.
ListElem(f, list, i) ==
    IF f.str[list].live THEN f.str[list].text[i]
    ELSE [code |-> Garbage, severity |-> 0, message |-> Garbage]

\* The frame after elements 1..n of the list were copied out.
RECURSIVE CopiedElems(_, _, _)
CopiedElems(f, list, n) ==
    IF n = 0 THEN f ELSE Copied(CopiedElems(f, list, n - 1), list)

\* eulumdat_validation_list_free(list)
eulumdat_validation_list_free(f, list) ==
    Release(f, list, "eulumdat_validation_list_free")

\* validate with the list freed before the loop that reads it.
Validate_FreesFirst ==
    /\ IF g_handle = NULL
       THEN NoFileLoaded("validate", <<>>)
       ELSE LET f0 == Call(NewFrame, "eulumdat_validate", g_handle, heap)
                f1 == ReturnedList(f0, eulumdat_validate(ModelAt(heap, g_handle)))
                cList == Len(f1.str)
                len == Len(f1.str[cList].text)
                f2 == eulumdat_validation_list_free(f1, cList)
                result == [i \in 1..len |->
                             LET cWarning == ListElem(f2, cList, i)
                             IN [code |-> JsString(cWarning.code),
                                 message |-> JsString(cWarning.message),
                                 severity |-> JsNumber(cWarning.severity)]]
            IN Finish("validate", <<>>, "return", [t |-> "array", v |-> result],
                      CopiedElems(f2, cList, len))
    /\ UNCHANGED <<g_handle, heap>>

\* validate with the array filled from the back (element len - 1 - i).
Validate_Reversed ==
    /\ IF g_handle = NULL
       THEN NoFileLoaded("validate", <<>>)
       ELSE LET f0 == Call(NewFrame, "eulumdat_validate", g_handle, heap)
                f1 == ReturnedList(f0, eulumdat_validate(ModelAt(heap, g_handle)))
                cList == Len(f1.str)
                len == Len(f1.str[cList].text)
                result == [i \in 1..len |->
                             LET cWarning == ListElem(f1, cList, len + 1 - i)
                             IN [code |-> JsString(cWarning.code),
                                 message |-> JsString(cWarning.message),
                                 severity |-> JsNumber(cWarning.severity)]]
                f2 == eulumdat_validation_list_free(CopiedElems(f1, cList, len), cList)
            IN Finish("validate", <<>>, "return", [t |-> "array", v |-> result], f2)
    /\ UNCHANGED <<g_handle, heap>>

\* ------------------------------------------------------------------------
\* validate(): ValidationWarning[]
\* ------------------------------------------------------------------------
Validate ==
    /\ IF g_handle = NULL
       THEN NoFileLoaded("validate", <<>>)
       ELSE LET f0 == Call(NewFrame, "eulumdat_validate", g_handle, heap)
                f1 == ReturnedList(f0, eulumdat_validate(ModelAt(heap, g_handle)))
                cList == Len(f1.str)
                len == Len(f1.str[cList].text)
                result == [i \in 1..len |->
                             LET cWarning == ListElem(f1, cList, i)
                             IN [code |-> JsString(cWarning.code),
                                 message |-> JsString(cWarning.message),
                                 severity |-> JsNumber(cWarning.severity)]]
                f2 == eulumdat_validation_list_free(CopiedElems(f1, cList, len), cList)
            IN Finish("validate", <<>>, "return", [t |-> "array", v |-> result], f2)
    /\ UNCHANGED <<g_handle, heap>>

\* ------------------------------------------------------------------------
\* Engine: the intensity sampler (spec section 4.3).  Angles are whole
\* degrees; an intensity is the exact fraction num / den.
\* ------------------------------------------------------------------------

Abs(n) == IF n < 0 THEN -n ELSE n

RECURSIVE Gcd(_, _)
Gcd(a, b) == IF b = 0 THEN a ELSE Gcd(b, a % b)

\* num / den in lowest terms.
Fraction(num, den) ==
    LET d == Gcd(Abs(num), den) IN [t |-> "double", num |-> num \div d, den |-> den \div d]

\* The fold with PlaneC90C270 handled by the PlaneC0C180 rule.
FoldC_C90LikeC0(symmetry, c) ==
    CASE symmetry = 1 -> 0
      [] symmetry \in {2, 3} -> IF c > 180 THEN 360 - c ELSE c
      [] symmetry = 4 -> IF c <= 90 THEN c
                         ELSE IF c <= 180 THEN 180 - c
                         ELSE IF c <= 270 THEN c - 180
                         ELSE 360 - c
      [] OTHER -> c

\* The fold with BothPlanes folded across C0-C180 only: the second half of the
\* circle is mirrored onto the first and the first is left as it is.
FoldC_HalfOnly(symmetry, c) ==
    CASE symmetry = 1 -> 0
      [] symmetry = 2 -> IF c > 180 THEN 360 - c ELSE c
      [] symmetry = 3 -> IF c < 90 THEN 180 - c ELSE IF c > 270 THEN 540 - c ELSE c
      [] symmetry = 4 -> IF c > 180 THEN 360 - c ELSE c
      [] OTHER -> c

\* A C angle mapped into the range the symmetry class stores.
FoldC(symmetry, c) ==
    CASE symmetry = 1 -> 0
      [] symmetry = 2 -> IF c > 180 THEN 360 - c ELSE c
      [] symmetry = 3 -> IF c < 90 THEN 180 - c ELSE IF c > 270 THEN 540 - c ELSE c
      [] symmetry = 4 -> IF c <= 90 THEN c
                         ELSE IF c <= 180 THEN 180 - c
                         ELSE IF c <= 270 THEN c - 180
                         ELSE 360 - c
      [] OTHER -> c

\* Index of the last stored angle not above x (the first one when x is below
\* the stored range).
LowerIdx(angles, x) ==
    LET below == {i \in 1..Len(angles) : angles[i] <= x}
    IN IF below = {} THEN 1 ELSE CHOOSE i \in below : \A j \in below : j <= i

\* Index of the stored angle bracketing x from above (the lower one again when
\* x is a stored angle or lies outside the stored range).
UpperIdx(angles, x) ==
    LET lo == LowerIdx(angles, x)
    IN IF angles[lo] >= x \/ lo = Len(angles) THEN lo ELSE lo + 1

\* sample(model, c, g): bilinear interpolation over the bracketing planes.
Sample(m, c, g) ==
    LET x == FoldC(m.symmetry, c)
        c0 == LowerIdx(m.c_angles, x)
        c1 == UpperIdx(m.c_angles, x)
        g0 == LowerIdx(m.g_angles, g)
        g1 == UpperIdx(m.g_angles, g)
        dc == IF c1 = c0 THEN 1 ELSE m.c_angles[c1] - m.c_angles[c0]
        nc == IF c1 = c0 THEN 0 ELSE x - m.c_angles[c0]
        dg == IF g1 = g0 THEN 1 ELSE m.g_angles[g1] - m.g_angles[g0]
        ng == IF g1 = g0 THEN 0 ELSE g - m.g_angles[g0]
    IN Fraction((dc - nc) * (dg - ng) * m.table[c0][g0]
                  + nc * (dg - ng) * m.table[c1][g0]
                  + (dc - nc) * ng * m.table[c0][g1]
                  + nc * ng * m.table[c1][g1],
                dc * dg)

\* eulumdat_sample_intensity(handle, c_angle, g_angle)
eulumdat_sample_intensity(model, c_angle, g_angle) ==
    IF model = "" THEN [t |-> "double", num |-> 0, den |-> 0]
    ELSE Sample(Luminaire(model), c_angle, g_angle)

SampleC == {0, 30, 45, 90, 150, 210, 330}

SampleG == {0, 45, 90, 180}

SampleArgs ==
    {<<>>, <<JsNumber(90)>>} \cup {<<JsNumber(c), JsNumber(g)>> : c \in SampleC, g \in SampleG}

\* ------------------------------------------------------------------------
\* The sampler over a family of stored grids: sampleIntensity(c, g) on a loaded
\* model whose grid and table are drawn from bounded sets.
\* ------------------------------------------------------------------------

\* The most C-planes, and the most G-angles, a model under test stores.
MaxPlanes == 2

\* The C angles a model of the symmetry class may store: one plane for
\* VerticalAxis, 0-180 for PlaneC0C180, 90-270 for PlaneC90C270, 0-90 for
\* BothPlanes, the full circle for None.
CRange(symmetry) ==
    CASE symmetry = 1 -> {0}
      [] symmetry = 2 -> {0, 90, 180}
      [] symmetry = 3 -> {90, 180, 270}
      [] symmetry = 4 -> {0, 45, 90}
      [] OTHER -> {0, 90, 180, 270}

GRange == {0, 90, 180}

\* The strictly increasing sequences of 1..MaxPlanes angles of S.
Grids(S) ==
    UNION {{a \in [1..n -> S] : \A i \in 1..n : \A j \in 1..n : i < j => a[i] < a[j]}
           : n \in 1..MaxPlanes}

\* Intensity tables, one value per (C-plane, G-angle), no two entries of a
\* table equal.
TableOf(k, nc, ng) == [i \in 1..nc |-> [j \in 1..ng |-> 100 * k * i + 10 * j * j]]

Models ==
    {[symmetry |-> sy, c_angles |-> ca, g_angles |-> ga,
      table |-> TableOf(k, Len(ca), Len(ga))]
       : sy \in 0..4, ca \in UNION {Grids(CRange(y)) : y \in 0..4},
         ga \in Grids(GRange), k \in {1, 3}}

SamplerModels == {m \in Models : \A i \in 1..Len(m.c_angles) : m.c_angles[i] \in CRange(m.symmetry)}

ProbeC == {0, 30, 45, 60, 90, 120, 135, 150, 180, 210, 225, 240, 270, 300, 315, 330}

ProbeG == {0, 45, 90, 180}

ProbeArgs == {<<JsNumber(c), JsNumber(g)>> : c \in ProbeC, g \in ProbeG}

InitSampler ==
    /\ g_handle = NULL
    /\ heap = [a \in Addrs |-> FreeSlot]
    /\ lastOp = NoOp
    /\ streak = {}
    /\ lastParse = "none"
    /\ pc = [t \in Callers |-> "idle"]
    /\ loc = [t \in Callers |-> NoLocal]
    /\ probe \in {[NoProbe EXCEPT !.m = m] : m \in SamplerModels}

\* sampleIntensity(c, g) with the model under test loaded: the two arguments
\* are read as doubles and handed to the sampler.
SampleProbe(argv) ==
    /\ LET cAngle == napi_get_value_double(argv, 1, 0)
           gAngle == napi_get_value_double(argv, 2, 0)
       IN probe' = [probe EXCEPT !.argv = argv,
                                 !.value = Sample(probe.m, cAngle, gAngle)]
    /\ UNCHANGED <<g_handle, heap, lastOp, streak, lastParse, pc, loc>>

NextSampler == \E argv \in ProbeArgs : SampleProbe(argv)

SpecSampler == InitSampler /\ [][NextSampler]_vars

\* sampleIntensity without the check of g_handle.
SampleIntensity_Unguarded(argv) ==
    /\ LET cAngle == napi_get_value_double(argv, 1, 0)
           gAngle == napi_get_value_double(argv, 2, 0)
           f0 == Call(NewFrame, "eulumdat_sample_intensity", g_handle, heap)
           intensity == eulumdat_sample_intensity(ModelAt(heap, g_handle), cAngle, gAngle)
       IN Finish("sampleIntensity", argv, "return", intensity, f0)
    /\ UNCHANGED <<g_handle, heap>>

\* ------------------------------------------------------------------------
\* sampleIntensity(cAngle, gAngle): number
\* ------------------------------------------------------------------------
SampleIntensity(argv) ==
    /\ IF g_handle = NULL
       THEN NoFileLoaded("sampleIntensity", argv)
       ELSE LET cAngle == napi_get_value_double(argv, 1, 0)
                gAngle == napi_get_value_double(argv, 2, 0)
                f0 == Call(NewFrame, "eulumdat_sample_intensity", g_handle, heap)
                intensity == eulumdat_sample_intensity(ModelAt(heap, g_handle),
                                                       cAngle, gAngle)
            IN Finish("sampleIntensity", argv, "return", intensity, f0)
    /\ UNCHANGED <<g_handle, heap>>

\* ------------------------------------------------------------------------
\* Engine: display names (spec section 4.6).
\* ------------------------------------------------------------------------

Unknown == "Unknown"

\* eulumdat_symmetry_name(symmetry)
eulumdat_symmetry_name(symmetry) ==
    CASE symmetry = 0 -> "None"
      [] symmetry = 1 -> "Vertical Axis"
      [] symmetry = 2 -> "Plane C0-C180"
      [] symmetry = 3 -> "Plane C90-C270"
      [] symmetry = 4 -> "Both Planes"
      [] OTHER -> Unknown

\* eulumdat_type_indicator_name(type_indicator)
eulumdat_type_indicator_name(type_indicator) ==
    CASE type_indicator = 0 -> "Point Source Symmetric"
      [] type_indicator = 1 -> "Linear"
      [] type_indicator = 2 -> "Point Source Other"
      [] OTHER -> Unknown

\* How many multiples of 2^32 an ordinal argument may lie beyond the int32
\* range.
MaxWrap == 1

Ordinals == -1..6 \cup {99}

\* Arguments a caller may pass as an ordinal: none, a number in the int32
\* range, a number beyond it, or a value that is no number.
OrdinalArgs ==
    {<<>>, <<JsString("4")>>}
      \cup {<<JsNumber(n)>> : n \in Ordinals}
      \cup {<<JsBig(k, n)>> : k \in 1..MaxWrap, n \in {2, 4, 99}}

\* The result of a display-name callback: the engine's string, copied and freed.
NameResult(op, argv, text) ==
    LET f1 == Returned(NewFrame, "string", text)
        name == PtrOf(NewFrame, text)
        result == CreateStringValue(f1, name)
    IN Finish(op, argv, "return", result, eulumdat_string_free(Copied(f1, name), name))

\* symmetryName with the check of g_handle the per-model callbacks make.
SymmetryName_Guarded(argv) ==
    /\ IF g_handle = NULL
       THEN NoFileLoaded("symmetryName", argv)
       ELSE LET symmetry == napi_get_value_int32(argv, 1, 0)
            IN NameResult("symmetryName", argv, eulumdat_symmetry_name(symmetry))
    /\ UNCHANGED <<g_handle, heap>>

\* ------------------------------------------------------------------------
\* symmetryName(symmetry: number): string
\* ------------------------------------------------------------------------
SymmetryName(argv) ==
    /\ LET symmetry == napi_get_value_int32(argv, 1, 0)
       IN NameResult("symmetryName", argv, eulumdat_symmetry_name(symmetry))
    /\ UNCHANGED <<g_handle, heap>>

\* ------------------------------------------------------------------------
\* typeIndicatorName(typeIndicator: number): string
\* ------------------------------------------------------------------------
TypeIndicatorName(argv) ==
    /\ LET typeIndicator == napi_get_value_int32(argv, 1, 0)
       IN NameResult("typeIndicatorName", argv, eulumdat_type_indicator_name(typeIndicator))
    /\ UNCHANGED <<g_handle, heap>>

Next ==
    \/ \E argv \in ContentArgs : ParseLdt(argv)
    \/ \E argv \in ContentArgs : ParseIes(argv)
    \/ IsLoaded
    \/ \E argv \in SizeArgs : PolarSvg(argv)
    \/ \E argv \in SizeExtraArgs : CartesianSvg(argv)
    \/ \E argv \in SizeExtraArgs : ButterflySvg(argv)
    \/ \E argv \in SizeArgs : HeatmapSvg(argv)
    \/ ExportLdt
    \/ ExportIes
    \/ GetInfo
    \/ Validate
    \/ \E argv \in SampleArgs : SampleIntensity(argv)
    \/ \E argv \in OrdinalArgs : SymmetryName(argv)
    \/ \E argv \in OrdinalArgs : TypeIndicatorName(argv)

Spec == Init /\ [][Next]_vars

\* ------------------------------------------------------------------------
\* Properties
\* ------------------------------------------------------------------------

Threw(o, message) == o.outcome = "throw" /\ o.value.t = "string" /\ o.value.v = message

\* C1: a per-model callback entered while g_handle is null leaves the
\* exception "No file loaded" pending, returns no value and never enters the
\* engine.
C1_NoFileLoaded ==
    (lastOp.op \in PerModelOps /\ lastOp.pre = NULL)
        => /\ Threw(lastOp, "No file loaded")
           /\ lastOp.frame.calls = <<>>
           /\ lastOp.frame.str = <<>>

\* A per-model callback was made right after the parser rejected an input.
C1_Witness ==
    /\ lastOp.op = "sampleIntensity"
    /\ lastOp.pre = NULL
    /\ streak # {}
    /\ Threw(lastOp, "No file loaded")

\* C2: a parse callback either returns true with g_handle on the live model
\* built from its input, or throws with no model of that input left behind:
\* after a rejection g_handle is null and nothing is live; after a call
\* without argument g_handle is what it was.
C2_Discriminated ==
    lastOp.op \in ParseOps
        => \/ /\ lastOp.outcome = "return"
              /\ lastOp.value = JsBool(TRUE)
              /\ Len(lastOp.argv) >= 1
              /\ g_handle # NULL
              /\ heap[g_handle].live
              /\ heap[g_handle].model = GetStringArg(lastOp.argv[1])
           \/ /\ lastOp.outcome = "throw"
              /\ IF Len(lastOp.argv) >= 1
                 THEN g_handle = NULL /\ \A a \in Addrs : ~heap[a].live
                 ELSE g_handle = lastOp.pre

\* A parse was rejected while a model was loaded.
C2_Witness ==
    /\ lastOp.op \in ParseOps
    /\ lastOp.outcome = "throw"
    /\ Len(lastOp.argv) >= 1
    /\ lastOp.pre # NULL

\* C3: no address is released twice, every engine call (eulumdat_free
\* included) is made on a handle that is live at that moment, and g_handle
\* never dangles.
C3_NoDoubleFreeNoUseAfterFree ==
    /\ \A a \in Addrs : heap[a].frees <= 1
    /\ \A i \in 1..Len(lastOp.frame.calls) : lastOp.frame.calls[i].valid
    /\ g_handle # NULL => heap[g_handle].live

\* A per-model callback entered the engine after some handle had been
\* released.
C3_Witness ==
    /\ lastOp.op \in PerModelOps
    /\ lastOp.frame.calls # <<>>
    /\ \E a \in Addrs : heap[a].frees = 1

DocumentedRelease(kind) ==
    IF kind = "validation_list" THEN "eulumdat_validation_list_free"
    ELSE "eulumdat_string_free"

\* How often the contents of a resource must be read to copy them.
CopiesNeeded(r) == IF r.kind = "validation_list" THEN Len(r.text) ELSE 1

\* C4: when a callback completes, every resource the engine returned to it
\* has been released exactly once, by its documented release function, after
\* its contents were copied and not read since.
C4_ReleasedOnceAfterCopy ==
    \A i \in 1..Len(lastOp.frame.str) :
        LET r == lastOp.frame.str[i]
        IN /\ ~r.live
           /\ r.frees = 1
           /\ r.by = DocumentedRelease(r.kind)
           /\ r.readsAtFree >= CopiesNeeded(r)
           /\ r.reads = r.readsAtFree

\* getInfo on a model with all six texts, and validate on a model with
\* warnings.
C4_Witness ==
    \/ lastOp.op = "getInfo" /\ Len(lastOp.frame.str) = 6
    \/ /\ lastOp.op = "validate"
       /\ Len(lastOp.frame.str) = 1
       /\ Len(lastOp.frame.str[1].text) = 3

\* C5: when the parser rejects the input, the message thrown is the error
\* string of the ParseResult, which is the parser's diagnostic.
C5_DiagnosticVerbatim ==
    Rejected(lastOp)
        => /\ lastOp.value.t = "string"
           /\ Len(lastOp.frame.str) = 1
           /\ lastOp.value.v = lastOp.frame.str[1].text
           /\ lastOp.value.v = Diagnostic(FormatOf(lastOp.op), GetStringArg(lastOp.argv[1]))

\* parseIes rejected a file (here one the LDT parser would accept).
C5_Witness ==
    /\ Rejected(lastOp)
    /\ lastOp.op = "parseIes"
    /\ lastOp.argv = <<JsString("LDT_A")>>

\* A callback's value is a real result: not undefined, not freed memory.
RealValue(v) ==
    /\ v.t # "undefined"
    /\ v.t = "string" => v.v # Garbage
    /\ v.t = "double" => v.den # 0

\* C6: in every state each parser can be called with any file it accepts; a
\* parse of a file the parser accepts returns true and leaves g_handle on the
\* live model of that file, whatever was rejected before; and every per-model
\* callback entered with a model loaded returns a real result.
C6_Recoverable ==
    /\ \A c \in LdtFiles : ENABLED ParseLdt(<<JsString(c)>>)
    /\ \A c \in IesFiles : ENABLED ParseIes(<<JsString(c)>>)
    /\ (/\ lastOp.op \in ParseOps
        /\ Len(lastOp.argv) >= 1
        /\ Accepts(FormatOf(lastOp.op), GetStringArg(lastOp.argv[1])))
           => /\ lastOp.outcome = "return"
              /\ lastOp.value = JsBool(TRUE)
              /\ g_handle # NULL
              /\ heap[g_handle].live
              /\ heap[g_handle].model = GetStringArg(lastOp.argv[1])
    /\ (lastOp.op \in PerModelOps /\ lastOp.pre # NULL)
           => /\ lastOp.outcome = "return"
              /\ RealValue(lastOp.value)

\* A parse succeeded right after rejections by both parsers.
C6_Witness ==
    /\ lastOp.op \in ParseOps
    /\ lastOp.outcome = "return"
    /\ streak = ParseOps

\* The property of the getInfo result that carries each LuminaireInfo field.
InfoProperty ==
    [luminaire_name |-> "luminaireName", identification |-> "identification",
     luminaire_number |-> "luminaireNumber", file_name |-> "fileName",
     date_user |-> "dateUser", measurement_report_number |-> "measurementReportNumber",
     symmetry |-> "symmetry", type_indicator |-> "typeIndicator",
     length |-> "length", width |-> "width", height |-> "height",
     luminous_area_length |-> "luminousAreaLength",
     luminous_area_width |-> "luminousAreaWidth",
     num_c_planes |-> "numCPlanes", num_g_planes |-> "numGPlanes",
     c_plane_distance |-> "cPlaneDistance", g_plane_distance |-> "gPlaneDistance",
     max_intensity |-> "maxIntensity", total_luminous_flux |-> "totalLuminousFlux",
     downward_flux_fraction |-> "downwardFluxFraction",
     light_output_ratio |-> "lightOutputRatio"]

\* C8: the object getInfo returns for a loaded model has a property for every
\* field of the LuminaireInfo record.
C8_InfoComplete ==
    (lastOp.op = "getInfo" /\ lastOp.outcome = "return")
        => \A field \in DOMAIN InfoProperty :
              InfoProperty[field] \in DOMAIN lastOp.value.v

\* What holds instead of C8: exactly four fields of LuminaireInfo have no
\* property in the object getInfo returns.
C8_FieldsSet ==
    (lastOp.op = "getInfo" /\ lastOp.outcome = "return")
        => {field \in DOMAIN InfoProperty : InfoProperty[field] \notin DOMAIN lastOp.value.v}
             = {"luminous_area_length", "luminous_area_width",
                "c_plane_distance", "g_plane_distance"}

\* Position of a check in the definition order.
CheckIndex(code) == CHOOSE k \in 1..Len(Checks) : Checks[k].code = code

\* The warning object the caller gets for an engine warning.
JsWarning(w) ==
    [code |-> JsString(w.code), message |-> JsString(w.message),
     severity |-> JsNumber(w.severity)]

C9_Delivered ==
    (lastOp.op = "validate" /\ lastOp.outcome = "return")
        => LET list == lastOp.frame.str[1].text
               out == lastOp.value.v
           IN /\ Len(out) = Len(list)
              /\ \A i \in 1..Len(out) : out[i] = JsWarning(list[i])
              /\ \A i, j \in 1..Len(out) :
                    i < j => \/ out[i].severity.v > out[j].severity.v
                             \/ /\ out[i].severity.v = out[j].severity.v
                                /\ CheckIndex(out[i].code.v) < CheckIndex(out[j].code.v)

C9_Repeatable ==
    (/\ lastOp.op = "validate" /\ lastOp.outcome = "return"
     /\ lastOp'.op = "validate" /\ lastOp'.outcome = "return")
        => lastOp'.value = lastOp.value

NameOps == {"symmetryName", "typeIndicatorName"}

\* The display text the engine has for an ordinal.
DisplayName(op, n) ==
    IF op = "symmetryName" THEN eulumdat_symmetry_name(n) ELSE eulumdat_type_indicator_name(n)

LastOrdinal(op) == IF op = "symmetryName" THEN 4 ELSE 2

\* An integer argument: inside the int32 range, or beyond it.
IntegerArg(argv) == Len(argv) >= 1 /\ argv[1].t \in {"number", "bignumber"}

\* C10 as claimed: for every integer ordinal, loaded or not, the lookup
\* returns a string; the ordinals 0..4 (0..2) give the display text and every
\* other integer gives the unknown marker.
C10_TotalLookup_Claimed ==
    (lastOp.op \in NameOps /\ IntegerArg(lastOp.argv))
        => /\ lastOp.outcome = "return"
           /\ lastOp.value.t = "string"
           /\ LET arg == lastOp.argv[1]
              IN IF arg.t = "number" /\ arg.v \in 0..LastOrdinal(lastOp.op)
                 THEN /\ lastOp.value.v = DisplayName(lastOp.op, arg.v)
                      /\ lastOp.value.v # Unknown
                 ELSE lastOp.value.v = Unknown

\* C10 amended: the same for every ordinal in the int32 range; a number
\* beyond that range is looked up by its bottom 32 bits.
C10_TotalLookup ==
    (lastOp.op \in NameOps /\ IntegerArg(lastOp.argv))
        => /\ lastOp.outcome = "return"
           /\ lastOp.value.t = "string"
           /\ LET arg == lastOp.argv[1]
              IN IF arg.t = "number"
                 THEN IF arg.v \in 0..LastOrdinal(lastOp.op)
                      THEN /\ lastOp.value.v = DisplayName(lastOp.op, arg.v)
                           /\ lastOp.value.v # Unknown
                      ELSE lastOp.value.v = Unknown
                 ELSE lastOp.value.v = DisplayName(lastOp.op, arg.lo)

\* symmetryName(99) with no file loaded gave the unknown marker.
C10_Witness ==
    /\ lastOp.op = "symmetryName"
    /\ lastOp.pre = NULL
    /\ lastOp.argv = <<JsNumber(99)>>
    /\ lastOp.value = JsString(Unknown)

\* ------------------------------------------------------------------------
\* Several callers.  g_handle is a plain static: nothing orders one caller's
\* reads and writes of it against another's, so the callbacks interleave at
\* every access to g_handle and around every engine call.
\* ------------------------------------------------------------------------

\* A per-model callback tests g_handle (if (g_handle == nullptr) throw).
CBeginRead(t, op) ==
    /\ pc[t] = "idle"
    /\ IF g_handle = NULL
       THEN UNCHANGED <<pc, loc>>
       ELSE /\ pc' = [pc EXCEPT ![t] = "checked"]
            /\ loc' = [loc EXCEPT ![t] = [NoLocal EXCEPT !.op = op]]
    /\ UNCHANGED <<g_handle, heap, lastOp, streak, lastParse, probe>>

\* It reads g_handle again as the argument of the engine call and the engine
\* starts to read the model behind it.
CEnterEngine(t) ==
    /\ pc[t] = "checked"
    /\ pc' = [pc EXCEPT ![t] = "reading"]
    /\ loc' = [loc EXCEPT ![t].handle = g_handle, ![t].model = ModelAt(heap, g_handle)]
    /\ UNCHANGED <<g_handle, heap, lastOp, streak, lastParse, probe>>

\* The engine call returns and the callback completes.
CLeaveEngine(t) ==
    /\ pc[t] = "reading"
    /\ pc' = [pc EXCEPT ![t] = "idle"]
    /\ loc' = [loc EXCEPT ![t] = NoLocal]
    /\ UNCHANGED <<g_handle, heap, lastOp, streak, lastParse, probe>>

\* A parse callback with a content argument tests g_handle
\* (if (g_handle != nullptr)).
CBeginParse(t, op, content) ==
    /\ pc[t] = "idle"
    /\ pc' = [pc EXCEPT ![t] = IF g_handle # NULL THEN "free" ELSE "parse"]
    /\ loc' = [loc EXCEPT ![t] = [NoLocal EXCEPT !.op = op, !.content = content]]
    /\ UNCHANGED <<g_handle, heap, lastOp, streak, lastParse, probe>>

\* eulumdat_free(g_handle)
CFree(t) ==
    /\ pc[t] = "free"
    /\ heap' = eulumdat_free(heap, g_handle)
    /\ pc' = [pc EXCEPT ![t] = "clear"]
    /\ UNCHANGED <<g_handle, loc, lastOp, streak, lastParse, probe>>

\* g_handle = nullptr
CClear(t) ==
    /\ pc[t] = "clear"
    /\ g_handle' = NULL
    /\ pc' = [pc EXCEPT ![t] = "parse"]
    /\ UNCHANGED <<heap, loc, lastOp, streak, lastParse, probe>>

\* ParseResult result = eulumdat_parse_ldt / _ies(content.c_str())
CParse(t) ==
    /\ pc[t] = "parse"
    /\ \E result \in eulumdat_parse(heap, FormatOf(loc[t].op), loc[t].content) :
          /\ heap' = result.heap
          /\ loc' = [loc EXCEPT ![t].result = [handle |-> result.handle,
                                               error |-> result.error]]
    /\ pc' = [pc EXCEPT ![t] = "store"]
    /\ UNCHANGED <<g_handle, lastOp, streak, lastParse, probe>>

\* The error is thrown, or g_handle = result.handle.
CStore(t) ==
    /\ pc[t] = "store"
    /\ IF loc[t].result.error # NoText
       THEN UNCHANGED g_handle
       ELSE g_handle' = loc[t].result.handle
    /\ pc' = [pc EXCEPT ![t] = "idle"]
    /\ loc' = [loc EXCEPT ![t] = NoLocal]
    /\ UNCHANGED <<heap, lastOp, streak, lastParse, probe>>

ConcContents == {"LDT_A", "IES_A", "LDT_SHORT"}

NextConc ==
    \E t \in Callers :
        \/ \E op \in PerModelOps : CBeginRead(t, op)
        \/ CEnterEngine(t)
        \/ CLeaveEngine(t)
        \/ \E op \in ParseOps : \E content \in ConcContents : CBeginParse(t, op, content)
        \/ CFree(t)
        \/ CClear(t)
        \/ CParse(t)
        \/ CStore(t)

SpecConc == Init /\ [][NextConc]_vars

\* C7: while a caller's read is inside the engine, the handle it passed
\* refers to a live model, the one it referred to when the read began.
C7_ReadsSeeLiveModel ==
    \A t \in Callers :
        pc[t] = "reading"
            => /\ loc[t].handle # NULL
               /\ heap[loc[t].handle].live
               /\ heap[loc[t].handle].model = loc[t].model

\* ------------------------------------------------------------------------
\* The loaded model over a sequence of callbacks (Spec)
\* ------------------------------------------------------------------------

\* The callback completing in this step received a content argument.
ParseWithContent(o) == o.op \in ParseOps /\ Len(o.argv) >= 1

\* A step of any callback but a parse that received a content argument leaves
\* g_handle and the engine's models as they were; a parse without argument
\* throws "Missing content argument".
C13_FrameStep ==
    ~ParseWithContent(lastOp')
        => /\ g_handle' = g_handle
           /\ heap' = heap
           /\ (g_handle # NULL /\ heap[g_handle].live)
                 => (g_handle' # NULL /\ heap'[g_handle'].live
                     /\ ModelAt(heap', g_handle') = ModelAt(heap, g_handle))
           /\ lastOp'.op \in ParseOps => Threw(lastOp', "Missing content argument")

\* C13: the loaded model changes only inside a parseLdt / parseIes call that
\* received a content argument; every other callback, and a parse called
\* without argument, leaves the handle and the model behind it unchanged.
C13_OnlyParseChangesModel == [][C13_FrameStep]_vars

\* parseLdt / parseIes was called without argument while a model was loaded,
\* and the model is still loaded.
C13_Witness ==
    /\ lastOp.op \in ParseOps
    /\ lastOp.argv = <<>>
    /\ lastOp.pre # NULL
    /\ g_handle = lastOp.pre
    /\ heap[g_handle].live

\* C14: a model is loaded, and isLoaded returns true, exactly when the most
\* recent parse call that received a content argument succeeded; after one
\* the parser rejected, g_handle is null and every per-model callback throws
\* "No file loaded".
C14_LoadedIffLastParseSucceeded ==
    /\ (g_handle # NULL) <=> (lastParse = "ok")
    /\ lastOp.op = "isLoaded" => lastOp.value = JsBool(lastParse = "ok")
    /\ (lastOp.op \in PerModelOps /\ lastParse = "rejected")
          => Threw(lastOp, "No file loaded")
    /\ lastParse = "rejected" => \A a \in Addrs : ~heap[a].live

\* isLoaded returned false after a rejected parse that had released a loaded
\* model.
C14_Witness ==
    /\ lastOp.op = "isLoaded"
    /\ lastOp.value = JsBool(FALSE)
    /\ lastParse = "rejected"
    /\ \E a \in Addrs : heap[a].frees >= 1

\* The handles returned by a successful parse and not yet released.
LiveHandles == {a \in Addrs : heap[a].live}

\* C15: at most one model handle is live and g_handle is null or that handle;
\* a successful parse entered with a model loaded has released that model's
\* handle, validly, before the parser ran.
C15_SingleLiveHandle ==
    /\ Cardinality(LiveHandles) <= 1
    /\ LiveHandles = (IF g_handle = NULL THEN {} ELSE {g_handle})
    /\ (lastOp.op \in ParseOps /\ lastOp.outcome = "return" /\ lastOp.pre # NULL)
          => /\ Len(lastOp.frame.calls) >= 1
             /\ lastOp.frame.calls[1] = [fn |-> "eulumdat_free", handle |-> lastOp.pre,
                                         valid |-> TRUE]

\* A successful parse replaced a loaded model: the old handle was released
\* and the new one is the only live handle.
C15_Witness ==
    /\ lastOp.op \in ParseOps
    /\ lastOp.outcome = "return"
    /\ lastOp.pre # NULL
    /\ LiveHandles = {g_handle}
    /\ \E a \in Addrs \ {g_handle} : heap[a].frees = 1

\* ------------------------------------------------------------------------
\* The sampler (SpecSampler)
\* ------------------------------------------------------------------------

\* C11: a sample taken at a stored C-plane angle and a stored G angle is the
\* intensity-table entry of that grid point, whatever the symmetry class and
\* whether the model stores one plane or several on either axis.
C11_ExactAtGridPoints ==
    \A i \in 1..Len(probe.m.c_angles) : \A j \in 1..Len(probe.m.g_angles) :
        probe.argv = <<JsNumber(probe.m.c_angles[i]), JsNumber(probe.m.g_angles[j])>>
            => probe.value = [t |-> "double", num |-> probe.m.table[i][j], den |-> 1]

\* A model with several C-planes and a single G-angle was sampled at its last
\* C-plane and gave that plane's entry.
C11_Witness ==
    LET m == probe.m
        n == Len(m.c_angles)
    IN /\ n >= 2
       /\ Len(m.g_angles) = 1
       /\ probe.argv = <<JsNumber(m.c_angles[n]), JsNumber(m.g_angles[1])>>
       /\ probe.value = [t |-> "double", num |-> m.table[n][1], den |-> 1]

\* The reflections of a C angle across C0-C180 and C90-C270, in [0, 360).
Reflections(c) == {(360 - c) % 360, (540 - c) % 360, (180 + c) % 360}

\* C12: on a BothPlanes model, the sample at (c, g) equals the sample at
\* every reflection of c across the two symmetry planes.
C12_QuadrantsAgree ==
    (probe.m.symmetry = 4 /\ probe.argv # <<>>)
        => \A r \in Reflections(probe.argv[1].v) :
               Sample(probe.m, r, probe.argv[2].v) = probe.value

\* A BothPlanes model with several C-planes was sampled in the third
\* quadrant, between two stored planes, and gave the interpolated value of
\* the first quadrant.
C12_Witness ==
    /\ probe.m.symmetry = 4
    /\ Len(probe.m.c_angles) >= 2
    /\ probe.argv # <<>>
    /\ probe.argv[1].v = 210
    /\ probe.value.den > 1
    /\ probe.value = Sample(probe.m, 30, probe.argv[2].v)

====
